---- MODULE Spec2Model ----
(***************************************************************************)
(* koa-pageable (src/src/index.js): the paginate middleware, the sort      *)
(* parser, Pageable and the Page hierarchy.                                *)
(*                                                                         *)
(* JavaScript values are tagged records, so that values of different       *)
(* JavaScript types can be compared: undefined, null, a string (a sequence *)
(* of one-character strings), an array of strings, and the objects the     *)
(* library builds.  A call either returns a value or throws an error.      *)
(***************************************************************************)
EXTENDS Integers, Sequences, FiniteSets, TLC

VARIABLES
    query,      \* query[c]: ctx.query of request context c
    state,      \* state[c]: ctx.state of request context c
    pc,         \* pc[c]: "idle" (no request), "received", "done"
    result,     \* result[c]: how the promise returned by paginate settled
    log,        \* log[c]: the effects of paginate on context c, in order
    sortInput,  \* the argument of a direct parseSort call
    sortResult, \* what that call returned or threw
    pageInput,  \* the arguments of a Page constructor call
    page,       \* the page that call built
    derived,    \* what map or toJSON made of that page
    heap,       \* the number of objects the paginate calls have created
    refs,       \* refs[c]: the objects that the Pageable of context c holds
    iterated,   \* the Sort that is iterated
    iter,       \* the iterator of the running for...of loop
    seen,       \* seen[r]: the values the r-th for...of loop has produced
    calls,      \* the calls that forEach made of its callback
    callInput,  \* the arguments of a direct Order or Pageable construction
    callResult  \* what that construction returned or threw

reqVars == <<query, state, pc, result, log, heap, refs>>
sortVars == <<sortInput, sortResult>>
pageVars == <<pageInput, page, derived>>
iterVars == <<iterated, iter, seen, calls>>
ctorVars == <<callInput, callResult>>

vars == <<reqVars, sortVars, pageVars, iterVars, ctorVars>>

-----------------------------------------------------------------------------
(* JavaScript values *)

Undefined == [type |-> "undefined"]
Null == [type |-> "null"]
Str(cs) == [type |-> "string", chars |-> cs]
Arr(items) == [type |-> "array", items |-> items]
NotRun == [kind |-> "none"]
Return(v) == [kind |-> "return", value |-> v]
Throw(e) == [kind |-> "throw", error |-> e]

\* The parts of the state that a specification does not use stay as they are here.
NoCtx == [c \in {} |-> Undefined]
NoRequest ==
    /\ query = NoCtx /\ state = NoCtx /\ pc = NoCtx /\ result = NoCtx /\ log = NoCtx
    /\ heap = 0 /\ refs = NoCtx
NoSortCall == sortInput = Undefined /\ sortResult = NotRun
NoPageCall == pageInput = Undefined /\ page = Undefined /\ derived = NotRun
NoIteration == iterated = Undefined /\ iter = Undefined /\ seen = <<>> /\ calls = NotRun
NoCtorCall == callInput = Undefined /\ callResult = NotRun

IsStr(v) == v.type = "string"
IsArr(v) == v.type = "array"

\* JavaScript truthiness of the values a query can hold: undefined, null and
\* the empty string are falsy, every other string and every array is truthy.
Truthy(v) ==
    CASE v.type = "undefined" -> FALSE
      [] v.type = "null" -> FALSE
      [] v.type = "string" -> Len(v.chars) > 0
      [] OTHER -> TRUE

-----------------------------------------------------------------------------
(* Bounds of the input sets *)

MaxPieces == 5      \* pieces in a single sort string
MaxArrPieces == 3   \* pieces in a multi-valued sort parameter, all items together
MaxItems == 2       \* items in a multi-valued sort parameter
MaxNumLen == 2      \* characters in the text of query.page and query.size
MaxTotal == 3       \* totalElements handed to a page constructor
MaxPage == 2        \* page number of the Pageable handed to a page constructor
MaxSize == 2        \* page size of the Pageable handed to a page constructor
MaxContent == 2     \* elements in the content (or ids) handed to a page constructor
MaxId == 2          \* ids of the content elements
MaxOrders == 3      \* orders of a Sort that is iterated
MaxRounds == 2      \* for...of loops run over one Sort
NumCtx == 2         \* request contexts whose paginate calls interleave
MaxDirPieces == 2   \* pieces in the direction handed to the Order constructor
MaxSortPieces == 3  \* pieces in the sort handed to the Pageable constructor

-----------------------------------------------------------------------------
(* Errors *)

\* class InvalidSortError: the instance carries name and message.
InvalidSortError ==
    [type |-> "InvalidSortError", base |-> "KoaPageableError",
     name |-> "InvalidDirectionError",
     message |-> "Invalid Sort Direction, must be one of \"asc\" or \"desc\""]

\* class NumberFormatError, for the input that could not be converted.
NumberFormatError(input) ==
    [type |-> "NumberFormatError", base |-> "KoaPageableError",
     name |-> "NumberFormatError", input |-> input]

\* A TypeError raised by the runtime (a method call on undefined or null).
TypeError == [type |-> "TypeError", base |-> "Error", name |-> "TypeError"]

\* static status = 400: a field of each of the three classes themselves.
STATUS == 400
Statics(class) ==
    IF class \in {"KoaPageableError", "NumberFormatError", "InvalidSortError"}
    THEN [status |-> STATUS]
    ELSE [c \in {} |-> 0]

\* error.status, read off an error value: a field the constructors assigned,
\* if there is one. The static fields of the class of the value are not
\* fields of the value, and the prototypes define no status.
status(error) ==
    IF "status" \in DOMAIN error
    THEN [type |-> "number", value |-> error.status]
    ELSE Undefined

-----------------------------------------------------------------------------
(* Direction and Order *)

Direction == [asc |-> <<"a", "s", "c">>, desc |-> <<"d", "e", "s", "c">>]

DEFAULT_DIRECTION == Direction.asc

\* String.prototype.toLowerCase on the letters the inputs use.
LowerChar(ch) ==
    CASE ch = "A" -> "a"
      [] ch = "S" -> "s"
      [] ch = "C" -> "c"
      [] ch = "D" -> "d"
      [] ch = "E" -> "e"
      [] OTHER -> ch

toLowerCase(cs) == [i \in 1..Len(cs) |-> LowerChar(cs[i])]

\* new Order(property, direction): an omitted (undefined) direction takes the
\* default parameter value; null has no toLowerCase method.
Order(property, direction) ==
    LET dir == IF direction.type = "undefined" THEN Str(DEFAULT_DIRECTION) ELSE direction
    IN  IF dir.type # "string"
        THEN Throw(TypeError)
        ELSE Return([type |-> "Order",
                     property |-> property,
                     direction |-> IF toLowerCase(dir.chars) = Direction.desc
                                   THEN Direction.desc
                                   ELSE DEFAULT_DIRECTION])

\* stringToDirection comparing without regard to letter case.
stringToDirection_ignoreCase(dir) ==
    IF dir.type = "undefined" \/ (dir.type = "string" /\ Len(dir.chars) = 0)
    THEN Return(Str(DEFAULT_DIRECTION))
    ELSE IF toLowerCase(dir.chars) = Direction.asc THEN Return(Str(Direction.asc))
    ELSE IF toLowerCase(dir.chars) = Direction.desc THEN Return(Str(Direction.desc))
    ELSE Throw(InvalidSortError)

\* stringToDirection(dir): lodash isEmpty holds of undefined and of ''.
stringToDirection(dir) ==
    IF dir.type = "undefined" \/ (dir.type = "string" /\ Len(dir.chars) = 0)
    THEN Return(Str(DEFAULT_DIRECTION))
    ELSE IF dir = Str(Direction.asc) THEN Return(Str(Direction.asc))
    ELSE IF dir = Str(Direction.desc) THEN Return(Str(Direction.desc))
    ELSE Throw(InvalidSortError)

-----------------------------------------------------------------------------
(* Sort and parseSort *)

\* new Sort(orders)
Sort(orders) == [type |-> "Sort", orders |-> orders]

\* String.prototype.split(sep) for a one-character separator: the pieces
\* between the separators, empty pieces included; no separator gives <<s>>.
RECURSIVE split(_, _)
split(s, sep) ==
    IF \E i \in 1..Len(s) : s[i] = sep
    THEN LET i == CHOOSE k \in 1..Len(s) :
                      s[k] = sep /\ \A j \in 1..(k - 1) : s[j] # sep
         IN  <<SubSeq(s, 1, i - 1)>> \o split(SubSeq(s, i + 1, Len(s)), sep)
    ELSE <<s>>

\* lodash flatMap over an array of arrays: one level of flattening.
RECURSIVE flatMap(_)
flatMap(arrays) ==
    IF arrays = <<>> THEN <<>> ELSE Head(arrays) \o flatMap(Tail(arrays))

NonEmpty(cs) == Len(cs) > 0

\* result[i] of a JavaScript array, 0-based: undefined past the end.
At(arr, i) == IF i + 1 <= Len(arr) THEN Str(arr[i + 1]) ELSE Undefined

\* paramArray.filter(param => param.length > 0) of parseSort, with the comma
\* filter left out.
validTokens_unfiltered(paramArray) == paramArray

\* paramArray.filter(param => param.length > 0) of parseSort.
validTokens(paramArray) == SelectSeq(paramArray, NonEmpty)

\* The callback of validArray.map in parseSort, for one token.
parseOrder(it) ==
    LET res == SelectSeq(split(it, ":"), NonEmpty)
        dir == stringToDirection(At(res, 1))
    IN  IF dir.kind = "throw" THEN dir ELSE Order(At(res, 0), dir.value)

\* parseSort(sortRequestQuery): a string or an array of strings.
parseSort(sortRequestQuery) ==
    LET paramArray ==
            IF IsArr(sortRequestQuery)
            THEN flatMap([i \in 1..Len(sortRequestQuery.items) |->
                             split(sortRequestQuery.items[i].chars, ",")])
            ELSE split(sortRequestQuery.chars, ",")
        validArray == validTokens(paramArray)
        orderList == [i \in 1..Len(validArray) |-> parseOrder(validArray[i])]
    IN  IF \E i \in 1..Len(orderList) : orderList[i].kind = "throw"
        THEN LET first == CHOOSE k \in 1..Len(orderList) :
                              /\ orderList[k].kind = "throw"
                              /\ \A j \in 1..(k - 1) : orderList[j].kind # "throw"
             IN  orderList[first]
        ELSE Return(Sort([i \in 1..Len(orderList) |-> orderList[i].value]))

-----------------------------------------------------------------------------
(* Numbers *)

Num(n) == [type |-> "number", value |-> n]
NaN == [type |-> "NaN"]
Infinity == [type |-> "Infinity"]
Bool(b) == [type |-> "boolean", value |-> b]

Digits == {"0", "1", "2", "3", "4", "5", "6", "7", "8", "9"}

DigitValue(ch) ==
    CASE ch = "0" -> 0 [] ch = "1" -> 1 [] ch = "2" -> 2 [] ch = "3" -> 3
      [] ch = "4" -> 4 [] ch = "5" -> 5 [] ch = "6" -> 6 [] ch = "7" -> 7
      [] ch = "8" -> 8 [] ch = "9" -> 9

\* parseInt step 1: leading white space is skipped.
RECURSIVE TrimLeft(_)
TrimLeft(cs) ==
    IF cs # <<>> /\ Head(cs) = " " THEN TrimLeft(Tail(cs)) ELSE cs

\* parseInt: the digits are read up to the first character that is no digit.
RECURSIVE DigitPrefix(_)
DigitPrefix(cs) ==
    IF cs # <<>> /\ Head(cs) \in Digits
    THEN <<Head(cs)>> \o DigitPrefix(Tail(cs))
    ELSE <<>>

RECURSIVE Decimal(_)
Decimal(ds) ==
    IF ds = <<>> THEN 0
    ELSE 10 * Decimal(SubSeq(ds, 1, Len(ds) - 1)) + DigitValue(ds[Len(ds)])

\* parseInt(input, 10) of a string: white space, an optional sign, then the
\* longest run of digits; NaN when there is no digit there.  (-0 is 0.)
parseInt(cs) ==
    LET t == TrimLeft(cs)
        signed == t # <<>> /\ Head(t) \in {"-", "+"}
        ds == DigitPrefix(IF signed THEN Tail(t) ELSE t)
    IN  IF ds = <<>> THEN NaN
        ELSE Num(IF signed /\ Head(t) = "-" THEN 0 - Decimal(ds) ELSE Decimal(ds))

\* parseIntOrThrow(input)
parseIntOrThrow(input) ==
    LET res == parseInt(input.chars)
    IN  IF res.type # "number" THEN Throw(NumberFormatError(input)) ELSE Return(res)

\* parseOptionalIntOrThrow(input)
parseOptionalIntOrThrow(input) ==
    IF ~Truthy(input) THEN Return(Null) ELSE parseIntOrThrow(input)

\* value || dflt for a number or null: null, 0 and NaN are falsy.
OrDefault(v, dflt) ==
    IF v.type = "number" /\ v.value # 0 THEN v.value ELSE dflt

-----------------------------------------------------------------------------
(* Pageable *)

DEFAULT_PAGE_NUMBER == 0
DEFAULT_PAGE_SIZE == 20
PAGINATE_DEFAULT_PAGE == 0
PAGINATE_DEFAULT_SIZE == 10

\* new Pageable(pageNumber, pageSize, indexed, sort): an undefined argument
\* takes the parameter's default; a truthy sort that is no Sort is parsed.
\* The Pageable constructor with the default size of paginate.
Pageable_paginateDefaults(pageNumber, pageSize, indexed, sort) ==
    LET base == [type |-> "Pageable",
                 page |-> IF pageNumber.type = "undefined"
                          THEN PAGINATE_DEFAULT_PAGE ELSE pageNumber.value,
                 size |-> IF pageSize.type = "undefined"
                          THEN PAGINATE_DEFAULT_SIZE ELSE pageSize.value,
                 indexed |-> IF indexed.type = "undefined" THEN FALSE ELSE indexed.value,
                 sort |-> Undefined]
    IN  IF Truthy(sort)
        THEN IF sort.type = "Sort"
             THEN Return([base EXCEPT !.sort = sort])
             ELSE LET parsed == parseSort(sort)
                  IN  IF parsed.kind = "throw" THEN parsed
                      ELSE Return([base EXCEPT !.sort = parsed.value])
        ELSE Return(base)

Pageable(pageNumber, pageSize, indexed, sort) ==
    LET base == [type |-> "Pageable",
                 page |-> IF pageNumber.type = "undefined"
                          THEN DEFAULT_PAGE_NUMBER ELSE pageNumber.value,
                 size |-> IF pageSize.type = "undefined"
                          THEN DEFAULT_PAGE_SIZE ELSE pageSize.value,
                 indexed |-> IF indexed.type = "undefined" THEN FALSE ELSE indexed.value,
                 sort |-> Undefined]
    IN  IF Truthy(sort)
        THEN IF sort.type = "Sort"
             THEN Return([base EXCEPT !.sort = sort])
             ELSE LET parsed == parseSort(sort)
                  IN  IF parsed.kind = "throw" THEN parsed
                      ELSE Return([base EXCEPT !.sort = parsed.value])
        ELSE Return(base)

-----------------------------------------------------------------------------
(* paginate *)

TRUE_TEXT == <<"t", "r", "u", "e">>

\* (ctx.query.indexed === 'true') taken as truthiness instead.
isIndexed_truthy(raw) == Truthy(raw)

\* (ctx.query.indexed === 'true')
isIndexed(raw) == raw = Str(TRUE_TEXT)

\* The first four statements of paginate and the construction of the
\* Pageable: the Pageable, or the error that one of them throws.
buildPageable(q) ==
    LET pg == parseOptionalIntOrThrow(q.page)
        sz == parseOptionalIntOrThrow(q.size)
        sort == IF Truthy(q.sort) THEN q.sort ELSE Null
    IN  IF pg.kind = "throw" THEN pg
        ELSE IF sz.kind = "throw" THEN sz
        ELSE Pageable(Num(OrDefault(pg.value, PAGINATE_DEFAULT_PAGE)),
                      Num(OrDefault(sz.value, PAGINATE_DEFAULT_SIZE)),
                      Bool(isIndexed(q.indexed)),
                      sort)

\* How the promise of the async function settles.
Settle(outcome) ==
    IF outcome.kind = "throw"
    THEN [kind |-> "rejected", error |-> outcome.error]
    ELSE [kind |-> "resolved", value |-> outcome.value]

SetPageable == [op |-> "setPageable"]
CallNext(outcome) == [op |-> "next", outcome |-> outcome]

\* paginate that hands over to next before it stores the Pageable.
paginate_nextFirst(ctx, nextOutcome) ==
    LET built == buildPageable(ctx.query)
    IN  IF built.kind = "throw"
        THEN [ctx |-> ctx, result |-> Settle(built), log |-> <<>>]
        ELSE [ctx |-> [ctx EXCEPT !.state.pageable = built.value],
              result |-> Settle(nextOutcome),
              log |-> <<CallNext(nextOutcome), SetPageable>>]

\* paginate that hands over to next even when the query is rejected.
paginate_nextOnError(ctx, nextOutcome) ==
    LET built == buildPageable(ctx.query)
    IN  IF built.kind = "throw"
        THEN [ctx |-> ctx, result |-> Settle(built), log |-> <<CallNext(nextOutcome)>>]
        ELSE [ctx |-> [ctx EXCEPT !.state.pageable = built.value],
              result |-> Settle(nextOutcome),
              log |-> <<SetPageable, CallNext(nextOutcome)>>]

\* paginate(ctx, next), with the outcome of the call of next: the context
\* afterwards, how the returned promise settles, and the effects in order.
paginate(ctx, nextOutcome) ==
    LET built == buildPageable(ctx.query)
    IN  IF built.kind = "throw"
        THEN [ctx |-> ctx, result |-> Settle(built), log |-> <<>>]
        ELSE [ctx |-> [ctx EXCEPT !.state.pageable = built.value],
              result |-> Settle(nextOutcome),
              log |-> <<SetPageable, CallNext(nextOutcome)>>]

-----------------------------------------------------------------------------
(* The requests of the model *)

NumChars == {"0", "1", "-", "a"}

NumTexts == UNION {[1..k -> NumChars] : k \in 0..MaxNumLen}

QueryNumbers == {Undefined} \cup {Str(t) : t \in NumTexts}

QuerySorts ==
    {Undefined,
     Str(<<>>),
     Str(<<"a", ":", "d", "e", "s", "c">>),
     Str(<<"a", ":", "b">>),
     Arr(<<Str(<<"a">>), Str(<<"b", ":", "d", "e", "s", "c">>)>>)}

QueryIndexed ==
    {Undefined,
     Str(<<>>),
     Str(TRUE_TEXT),
     Str(<<"T", "R", "U", "E">>),
     Str(<<"1">>),
     Arr(<<Str(TRUE_TEXT), Str(TRUE_TEXT)>>)}

Queries ==
    [page : QueryNumbers, size : QueryNumbers, sort : QuerySorts, indexed : QueryIndexed]

\* ctx.state as the earlier middleware left it: no pageable entry yet.
InitialState == [pageable |-> Undefined, user |-> Str(<<"u">>)]

\* What next() can do: return nothing, or fail downstream.
DownstreamError == [type |-> "Error", base |-> "Error", name |-> "Error"]
NextOutcomes == {Return(Undefined), Throw(DownstreamError)}

\* The request contexts of the model.
Ctxs == {1}

Init ==
    /\ query \in [Ctxs -> Queries]
    /\ state = [c \in Ctxs |-> InitialState]
    /\ pc = [c \in Ctxs |-> "received"]
    /\ result = [c \in Ctxs |-> NotRun]
    /\ log = [c \in Ctxs |-> <<>>]
    /\ heap = 0
    /\ refs = [c \in Ctxs |-> {}]
    /\ NoSortCall /\ NoPageCall /\ NoIteration /\ NoCtorCall

\* The objects that new creates for a Pageable: the Pageable and, when it has
\* a sort, the Sort, its array of orders and each Order.
ObjectCount(pageable) ==
    IF pageable.type # "Pageable" THEN 0
    ELSE 1 + (IF pageable.sort.type = "Sort" THEN 2 + Len(pageable.sort.orders) ELSE 0)

\* The objects of a stored Pageable, were they kept in one place for all calls.
allocate_reused(pageable, used) == 1..ObjectCount(pageable)

\* The objects of a stored Pageable: new gives each a place no object has yet.
allocate(pageable, used) == (used + 1)..(used + ObjectCount(pageable))

\* The host framework runs paginate on the request of context c.
Paginate(c) ==
    /\ pc[c] = "received"
    /\ \E nextOutcome \in NextOutcomes :
           LET done == paginate([query |-> query[c], state |-> state[c]], nextOutcome)
           IN  /\ query' = [query EXCEPT ![c] = done.ctx.query]
               /\ state' = [state EXCEPT ![c] = done.ctx.state]
               /\ result' = [result EXCEPT ![c] = done.result]
               /\ log' = [log EXCEPT ![c] = done.log]
               /\ refs' = [refs EXCEPT ![c] = allocate(done.ctx.state.pageable, heap)]
               /\ heap' = heap + Cardinality(allocate(done.ctx.state.pageable, heap))
    /\ pc' = [pc EXCEPT ![c] = "done"]
    /\ UNCHANGED <<sortVars, pageVars, iterVars, ctorVars>>

Next == \E c \in DOMAIN pc : Paginate(c)

Spec == Init /\ [][Next]_vars

-----------------------------------------------------------------------------
(* Requests of several contexts, handled in any order *)

ConcCtxs == 1..NumCtx

ConcQueries ==
    [page : {Undefined, Str(<<"1">>), Str(<<"a">>)},
     size : {Undefined},
     sort : QuerySorts \ {Str(<<>>)},
     indexed : {Undefined}]

InitConc ==
    /\ query \in [ConcCtxs -> ConcQueries]
    /\ state = [c \in ConcCtxs |-> InitialState]
    /\ pc = [c \in ConcCtxs |-> "received"]
    /\ result = [c \in ConcCtxs |-> NotRun]
    /\ log = [c \in ConcCtxs |-> <<>>]
    /\ heap = 0
    /\ refs = [c \in ConcCtxs |-> {}]
    /\ NoSortCall /\ NoPageCall /\ NoIteration /\ NoCtorCall

SpecConc == InitConc /\ [][Next]_vars

-----------------------------------------------------------------------------
(* The raw sort values of the model *)

SortPieces ==
    {<<"a">>, <<"b">>, <<",">>, <<":">>,
     Direction.asc, Direction.desc, <<"D", "E", "S", "C">>}

\* The text that a sequence of pieces spells.
RECURSIVE Concat(_)
Concat(ps) == IF ps = <<>> THEN <<>> ELSE Head(ps) \o Concat(Tail(ps))

\* A multi-valued parameter: the ways to cut a sequence of pieces into n items.
RECURSIVE Cuts(_, _)
Cuts(ps, n) ==
    IF n = 1 THEN {<<Str(Concat(ps))>>}
    ELSE UNION {{<<Str(Concat(SubSeq(ps, 1, k)))>> \o rest :
                    rest \in Cuts(SubSeq(ps, k + 1, Len(ps)), n - 1)} :
                k \in 0..Len(ps)}

-----------------------------------------------------------------------------
(* A direct call of parseSort *)

InitSort ==
    /\ \/ \E k \in 0..MaxPieces : \E ps \in [1..k -> SortPieces] :
              sortInput = Str(Concat(ps))
       \/ \E k \in 0..MaxArrPieces : \E ps \in [1..k -> SortPieces] :
              \E n \in 1..MaxItems : \E items \in Cuts(ps, n) :
                  sortInput = Arr(items)
    /\ sortResult = NotRun
    /\ NoRequest /\ NoPageCall /\ NoIteration /\ NoCtorCall

CallParseSort ==
    /\ sortResult = NotRun
    /\ sortResult' = parseSort(sortInput)
    /\ UNCHANGED <<reqVars, sortInput, pageVars, iterVars, ctorVars>>

NextSort == CallParseSort

SpecSort == InitSort /\ [][NextSort]_vars

-----------------------------------------------------------------------------
(* The Page hierarchy *)

\* Math.ceil(a / b) for integers a >= 0 and b # 0.
Ceil(a, b) ==
    IF b > 0 THEN (a + b - 1) \div b ELSE 0 - (a \div (0 - b))

Max(a, b) == IF a >= b THEN a ELSE b

\* Math.ceil(totalElements / size) without the floor of one page.
TotalPages_noFloor(totalElements, size) ==
    IF size = 0
    THEN (IF totalElements = 0 THEN NaN ELSE Infinity)
    ELSE Num(Ceil(totalElements, size))

\* Math.max(Math.ceil(totalElements / size), 1): a division by zero gives
\* Infinity, or NaN for 0 / 0, and Math.max keeps either.
TotalPages(totalElements, size) ==
    IF size = 0
    THEN (IF totalElements = 0 THEN NaN ELSE Infinity)
    ELSE Num(Max(Ceil(totalElements, size), 1))

\* number > totalPages - 1 in place of number >= totalPages - 1.
AtLeastLastPage_strict(number, totalPages) ==
    totalPages.type = "number" /\ number > totalPages.value - 1

\* number >= totalPages - 1: false against NaN and against Infinity.
AtLeastLastPage(number, totalPages) ==
    totalPages.type = "number" /\ number >= totalPages.value - 1

\* The Page constructor with last taken as "is exactly the last page".
Page_lastExact(totalElements, pageable) ==
    LET totalPages == TotalPages(totalElements, pageable.size)
    IN  [number |-> pageable.page,
         size |-> pageable.size,
         sort |-> pageable.sort,
         totalElements |-> totalElements,
         totalPages |-> totalPages,
         first |-> (pageable.page = 0),
         last |-> (totalPages.type = "number" /\ pageable.page = totalPages.value - 1)]

\* new Page(totalElements, pageable): the fields all page types share.
Page(totalElements, pageable) ==
    LET totalPages == TotalPages(totalElements, pageable.size)
    IN  [number |-> pageable.page,
         size |-> pageable.size,
         sort |-> pageable.sort,
         totalElements |-> totalElements,
         totalPages |-> totalPages,
         first |-> (pageable.page = 0),
         last |-> AtLeastLastPage(pageable.page, totalPages)]

\* The fields of record r and then those of record q.
Extend(r, q) ==
    [k \in DOMAIN r \cup DOMAIN q |-> IF k \in DOMAIN q THEN q[k] ELSE r[k]]

\* new ArrayPage(content, totalElements, pageable)
ArrayPage(content, totalElements, pageable) ==
    Extend(Page(totalElements, pageable),
           [type |-> "ArrayPage",
            content |-> content,
            numberOfElements |-> Len(content)])

\* new IndexedPage(ids, index, totalElements, pageable)
IndexedPage(ids, index, totalElements, pageable) ==
    Extend(Page(totalElements, pageable),
           [type |-> "IndexedPage",
            ids |-> ids,
            index |-> index,
            numberOfElements |-> Cardinality(DOMAIN index)])

\* new IndexablePage(content, totalElements, pageable)
IndexablePage(content, totalElements, pageable) ==
    Extend(Page(totalElements, pageable),
           [type |-> "IndexablePage",
            content |-> content,
            indexed |-> pageable.indexed,
            numberOfElements |-> Len(content)])

-----------------------------------------------------------------------------
(* map and toJSON *)

\* The callbacks handed to map: one that uses the value only, and the one of
\* the tests, which also uses the second argument that map passes.
Iteratees == {"rename", "withAge"}

Apply(fn, value, second) ==
    IF fn = "rename"
    THEN [value EXCEPT !.name = "r"]
    ELSE Extend(value, [age |-> second * 5])

\* Array.prototype.map: the callback gets the element and its 0-based index.
arrayMap(content, fn) == [i \in 1..Len(content) |-> Apply(fn, content[i], i - 1)]

\* lodash mapValues: the callback gets the value and its key.
mapValues(index, fn) == [k \in DOMAIN index |-> Apply(fn, index[k], k)]

\* keyBy keeping the first element of each id.
keyBy_firstWins(content) ==
    [id \in {content[i].id : i \in 1..Len(content)} |->
        content[CHOOSE i \in 1..Len(content) :
                    /\ content[i].id = id
                    /\ \A j \in 1..(i - 1) : content[j].id # id]]

\* lodash keyBy(content, 'id'): a later element replaces an earlier one with
\* the same id.
keyBy(content) ==
    [id \in {content[i].id : i \in 1..Len(content)} |->
        content[CHOOSE i \in 1..Len(content) :
                    /\ content[i].id = id
                    /\ \A j \in (i + 1)..Len(content) : content[j].id # id]]

\* ArrayPage.map taking the length of the content for totalElements.
ArrayPage_map_countsContent(p, fn) ==
    ArrayPage(arrayMap(p.content, fn),
              Len(p.content),
              Pageable(Num(p.number), Num(p.size), Bool(FALSE), p.sort).value)

\* ArrayPage.map(iteratee)
ArrayPage_map(p, fn) ==
    ArrayPage(arrayMap(p.content, fn),
              p.totalElements,
              Pageable(Num(p.number), Num(p.size), Bool(FALSE), p.sort).value)

\* IndexedPage.map(iteratee)
IndexedPage_map(p, fn) ==
    IndexedPage(p.ids,
                mapValues(p.index, fn),
                p.totalElements,
                Pageable(Num(p.number), Num(p.size), Bool(TRUE), p.sort).value)

\* IndexablePage.map(iteratee)
IndexablePage_map(p, fn) ==
    IndexablePage(arrayMap(p.content, fn),
                  p.totalElements,
                  Pageable(Num(p.number), Num(p.size), Bool(p.indexed), p.sort).value)

\* IndexablePage.toJSON()
IndexablePage_toJSON(p) ==
    IF p.indexed
    THEN IndexedPage([i \in 1..Len(p.content) |-> p.content[i].id],
                     keyBy(p.content),
                     p.totalElements,
                     Pageable(Num(p.number), Num(p.size), Bool(p.indexed), p.sort).value)
    ELSE ArrayPage(p.content,
                   p.totalElements,
                   Pageable(Num(p.number), Num(p.size), Bool(p.indexed), p.sort).value)

Mapped(fn, value) == [kind |-> "map", iteratee |-> fn, value |-> value]
Serialized(value) == [kind |-> "toJSON", value |-> value]

-----------------------------------------------------------------------------
(* The constructor calls of the model *)

Ids == 1..MaxId
Element(id) == [id |-> id, name |-> "n"]
Names == {"n", "m"}
Elements == [id : Ids, name : Names]
Contents == UNION {[1..k -> Elements] : k \in 0..MaxContent}
IdLists == UNION {[1..k -> Ids] : k \in 0..MaxContent}
Indexes == UNION {{[id \in K |-> Element(id)]} : K \in SUBSET Ids}

PageSorts == {Undefined, parseSort(Str(<<"a">>)).value}

Pageables ==
    {Pageable(Num(p), Num(sz), Bool(ix), srt).value :
        p \in 0..MaxPage, sz \in {0 - 1} \cup 0..MaxSize, ix \in BOOLEAN, srt \in PageSorts}

ContentInputs ==
    [kind : {"ArrayPage", "IndexablePage"}, content : Contents,
     totalElements : 0..MaxTotal, pageable : Pageables]

IndexInputs ==
    [kind : {"IndexedPage"}, ids : IdLists, index : Indexes,
     totalElements : 0..MaxTotal, pageable : Pageables]

InitPage ==
    /\ \/ pageInput \in ContentInputs
       \/ pageInput \in IndexInputs
    /\ page = Undefined
    /\ derived = NotRun
    /\ NoRequest /\ NoSortCall /\ NoIteration /\ NoCtorCall

NewArrayPage ==
    /\ page = Undefined /\ pageInput.kind = "ArrayPage"
    /\ page' = ArrayPage(pageInput.content, pageInput.totalElements, pageInput.pageable)
    /\ UNCHANGED <<reqVars, sortVars, pageInput, derived, iterVars, ctorVars>>

NewIndexedPage ==
    /\ page = Undefined /\ pageInput.kind = "IndexedPage"
    /\ page' = IndexedPage(pageInput.ids, pageInput.index,
                           pageInput.totalElements, pageInput.pageable)
    /\ UNCHANGED <<reqVars, sortVars, pageInput, derived, iterVars, ctorVars>>

NewIndexablePage ==
    /\ page = Undefined /\ pageInput.kind = "IndexablePage"
    /\ page' = IndexablePage(pageInput.content, pageInput.totalElements, pageInput.pageable)
    /\ UNCHANGED <<reqVars, sortVars, pageInput, derived, iterVars, ctorVars>>

MapArrayPage ==
    /\ page # Undefined /\ page.type = "ArrayPage" /\ derived = NotRun
    /\ \E fn \in Iteratees : derived' = Mapped(fn, ArrayPage_map(page, fn))
    /\ UNCHANGED <<reqVars, sortVars, pageInput, page, iterVars, ctorVars>>

MapIndexedPage ==
    /\ page # Undefined /\ page.type = "IndexedPage" /\ derived = NotRun
    /\ \E fn \in Iteratees : derived' = Mapped(fn, IndexedPage_map(page, fn))
    /\ UNCHANGED <<reqVars, sortVars, pageInput, page, iterVars, ctorVars>>

MapIndexablePage ==
    /\ page # Undefined /\ page.type = "IndexablePage" /\ derived = NotRun
    /\ \E fn \in Iteratees : derived' = Mapped(fn, IndexablePage_map(page, fn))
    /\ UNCHANGED <<reqVars, sortVars, pageInput, page, iterVars, ctorVars>>

ToJSON ==
    /\ page # Undefined /\ page.type = "IndexablePage" /\ derived = NotRun
    /\ derived' = Serialized(IndexablePage_toJSON(page))
    /\ UNCHANGED <<reqVars, sortVars, pageInput, page, iterVars, ctorVars>>

NextPage ==
    \/ NewArrayPage \/ NewIndexedPage \/ NewIndexablePage
    \/ MapArrayPage \/ MapIndexedPage \/ MapIndexablePage
    \/ ToJSON

SpecPage == InitPage /\ [][NextPage]_vars

-----------------------------------------------------------------------------
(* Traversing a Sort *)

OrderValues ==
    {Order(Str(<<p>>), Str(d)).value : p \in {"a", "b"}, d \in {Direction.asc, Direction.desc}}

\* Sort[Symbol.iterator](): the iterator over the orders, before any next().
iterator(sort) == [values |-> sort.orders, count |-> 0, done |-> FALSE]

\* values[i] of JavaScript, i counted from 0: undefined past the end.
Index(values, i) == IF i < Len(values) THEN values[i + 1] ELSE Undefined

\* One call of next(): the iterator afterwards and the result handed out.
next(it) ==
    LET done == it.count >= Len(it.values)
        count == it.count + 1
    IN  [iter |-> [values |-> it.values, count |-> count, done |-> done],
         result |-> [done |-> done, value |-> Index(it.values, count)]]

\* forEach handing the Order itself to the callback.
forEach_passesOrder(sort) == [i \in 1..Len(sort.orders) |-> <<sort.orders[i]>>]

\* Sort.forEach(iteratee): the argument lists of the calls of iteratee, in order.
forEach(sort) ==
    [i \in 1..Len(sort.orders) |-> <<sort.orders[i].property, sort.orders[i].direction>>]

Called(args) == [kind |-> "forEach", args |-> args]

InitIter ==
    /\ \E k \in 0..MaxOrders : \E os \in [1..k -> OrderValues] : iterated = Sort(os)
    /\ iter = Undefined
    /\ seen = <<>>
    /\ calls = NotRun
    /\ NoRequest /\ NoSortCall /\ NoPageCall /\ NoCtorCall

\* for (const order of sort): the loop asks the Sort for an iterator.
GetIterator ==
    /\ iter = Undefined
    /\ Len(seen) < MaxRounds
    /\ iter' = iterator(iterated)
    /\ seen' = Append(seen, <<>>)
    /\ UNCHANGED <<reqVars, sortVars, pageVars, iterated, calls, ctorVars>>

\* The loop calls next(): a result that is done ends the loop, any other
\* result runs the body with its value.
IterNext ==
    /\ iter # Undefined
    /\ LET step == next(iter)
       IN  IF step.result.done
           THEN iter' = Undefined /\ seen' = seen
           ELSE /\ iter' = step.iter
                /\ seen' = [seen EXCEPT ![Len(seen)] = Append(@, step.result.value)]
    /\ UNCHANGED <<reqVars, sortVars, pageVars, iterated, calls, ctorVars>>

ForEach ==
    /\ calls = NotRun
    /\ calls' = Called(forEach(iterated))
    /\ UNCHANGED <<reqVars, sortVars, pageVars, iterated, iter, seen, ctorVars>>

NextIter == GetIterator \/ IterNext \/ ForEach

SpecIter == InitIter /\ [][NextIter]_vars

-----------------------------------------------------------------------------
(* Direct calls of the constructors of Order and Pageable *)

DirPieces ==
    {<<"d", "e">>, <<"s", "c">>, <<"D", "E">>, <<"S", "c">>, Direction.asc, <<"x">>}

OrderCall(property, direction) ==
    [kind |-> "Order", property |-> property, direction |-> direction]

PageableCall(pageNumber, pageSize, indexed, sort) ==
    [kind |-> "Pageable", pageNumber |-> pageNumber, pageSize |-> pageSize,
     indexed |-> indexed, sort |-> sort]

\* The direction handed to new Order(property, direction).
InitOrderCall ==
    \/ \E d \in {Undefined, Null} : callInput = OrderCall(Str(<<"a">>), d)
    \/ \E k \in 0..MaxDirPieces : \E ps \in [1..k -> DirPieces] :
           callInput = OrderCall(Str(<<"a">>), Str(Concat(ps)))

\* The arguments handed to new Pageable(pageNumber, pageSize, indexed, sort).
InitPageableCall ==
    \E pageNumber \in {Undefined, Num(0), Num(2)} :
    \E pageSize \in {Undefined, Num(5)} :
    \E indexed \in {Undefined, Bool(TRUE)} :
        \/ \E sort \in {Undefined, Null, Arr(<<>>)} :
               callInput = PageableCall(pageNumber, pageSize, indexed, sort)
        \/ \E k \in 0..MaxSortPieces : \E ps \in [1..k -> SortPieces] :
               callInput = PageableCall(pageNumber, pageSize, indexed, Str(Concat(ps)))
        \/ \E k \in 0..(MaxSortPieces - 1) : \E ps \in [1..k -> SortPieces] :
               \E n \in 1..MaxItems : \E items \in Cuts(ps, n) :
                   callInput = PageableCall(pageNumber, pageSize, indexed, Arr(items))
        \/ \E k \in 0..MaxOrders : \E os \in [1..k -> OrderValues] :
               callInput = PageableCall(pageNumber, pageSize, indexed, Sort(os))

InitCtor ==
    /\ InitOrderCall \/ InitPageableCall
    /\ callResult = NotRun
    /\ NoRequest /\ NoSortCall /\ NoPageCall /\ NoIteration

NewOrder ==
    /\ callInput.kind = "Order" /\ callResult = NotRun
    /\ callResult' = Order(callInput.property, callInput.direction)
    /\ UNCHANGED <<reqVars, sortVars, pageVars, iterVars, callInput>>

NewPageable ==
    /\ callInput.kind = "Pageable" /\ callResult = NotRun
    /\ callResult' = Pageable(callInput.pageNumber, callInput.pageSize,
                              callInput.indexed, callInput.sort)
    /\ UNCHANGED <<reqVars, sortVars, pageVars, iterVars, callInput>>

NextCtor == NewOrder \/ NewPageable

SpecCtor == InitCtor /\ [][NextCtor]_vars

-----------------------------------------------------------------------------
(* What the sort parameter says, read off the text character by character *)

\* The maximal runs of characters other than sep in cs, left to right; cur is
\* the run being read.
RECURSIVE Fields(_, _, _)
Fields(cs, sep, cur) ==
    IF cs = <<>> THEN (IF cur = <<>> THEN <<>> ELSE <<cur>>)
    ELSE IF Head(cs) = sep
         THEN (IF cur = <<>> THEN <<>> ELSE <<cur>>) \o Fields(Tail(cs), sep, <<>>)
         ELSE Fields(Tail(cs), sep, Append(cur, Head(cs)))

\* The sort tokens of a raw value: the non-empty comma-separated tokens of a
\* string, or those of each item of a multi-valued parameter, item by item.
RECURSIVE ItemTokens(_)
ItemTokens(items) ==
    IF items = <<>> THEN <<>>
    ELSE Fields(Head(items).chars, ",", <<>>) \o ItemTokens(Tail(items))

SortTokens(raw) ==
    IF IsArr(raw) THEN ItemTokens(raw.items) ELSE Fields(raw.chars, ",", <<>>)

SubTokens(token) == Fields(token, ":", <<>>)
HasDirection(token) == Len(SubTokens(token)) >= 2
DirectionOf(token) == SubTokens(token)[2]
ValidDirection(token) ==
    HasDirection(token) => DirectionOf(token) \in {Direction.asc, Direction.desc}

\* C3: a token without a direction sub-token gets direction asc and raises
\* nothing; a direction sub-token that is exactly asc or exactly desc gives
\* that direction; any other direction sub-token (DESC included) makes
\* parseSort throw InvalidSortError and return no Sort.
C3_StrictDirection ==
    sortResult # NotRun =>
        LET toks == SortTokens(sortInput)
        IN  IF \A i \in 1..Len(toks) : ValidDirection(toks[i])
            THEN /\ sortResult.kind = "return"
                 /\ Len(sortResult.value.orders) = Len(toks)
                 /\ \A i \in 1..Len(toks) :
                        sortResult.value.orders[i].direction =
                            IF HasDirection(toks[i]) THEN DirectionOf(toks[i])
                            ELSE Direction.asc
            ELSE /\ sortResult.kind = "throw"
                 /\ sortResult.error.type = "InvalidSortError"

\* A direction in upper case was given and parseSort threw.
C3_Witness ==
    /\ sortInput = Str(<<"a", ":", "D", "E", "S", "C">>)
    /\ sortResult.kind = "throw"

\* C4: when parseSort succeeds the Sort holds exactly one Order per non-empty
\* comma-separated token, in token order (the tokens of a multi-valued
\* parameter item by item); empty tokens add no Order.
C4_OneOrderPerToken ==
    (sortResult # NotRun /\ sortResult.kind = "return") =>
        LET toks == SortTokens(sortInput)
            orders == sortResult.value.orders
        IN  /\ sortResult.value.type = "Sort"
            /\ Len(orders) = Len(toks)
            /\ \A i \in 1..Len(toks) :
                   /\ SubTokens(toks[i]) # <<>> =>
                          orders[i].property = Str(SubTokens(toks[i])[1])
                   /\ orders[i].direction =
                          IF HasDirection(toks[i]) THEN DirectionOf(toks[i])
                          ELSE Direction.asc

\* "a,,b," was parsed into the two orders a, b.
C4_Witness ==
    /\ sortInput = Str(<<"a", ",", ",", "b", ",">>)
    /\ sortResult.kind = "return"
    /\ Len(sortResult.value.orders) = 2
    /\ sortResult.value.orders[1].property = Str(<<"a">>)
    /\ sortResult.value.orders[2].property = Str(<<"b">>)

\* C5: every Order of a Sort that parseSort returns has a property that is a
\* defined, non-empty text, also for tokens made of colons only.
C5_PropertyNonEmpty ==
    (sortResult # NotRun /\ sortResult.kind = "return") =>
        \A i \in 1..Len(sortResult.value.orders) :
            /\ sortResult.value.orders[i].property.type = "string"
            /\ Len(sortResult.value.orders[i].property.chars) > 0

-----------------------------------------------------------------------------
(* What the query says, read off the text *)

Present(raw) == raw.type = "string" /\ raw.chars # <<>>

\* The text of an integer: an optional minus sign, then digits and no more.
IsIntegerText(cs) ==
    LET body == IF cs # <<>> /\ cs[1] = "-" THEN Tail(cs) ELSE cs
    IN  body # <<>> /\ \A i \in 1..Len(body) : body[i] \in Digits

\* The integer a text of digits stands for, read from the left.
RECURSIVE Horner(_, _)
Horner(ds, acc) ==
    IF ds = <<>> THEN acc ELSE Horner(Tail(ds), 10 * acc + DigitValue(Head(ds)))

IntegerValue(cs) ==
    IF cs[1] = "-" THEN 0 - Horner(Tail(cs), 0) ELSE Horner(cs, 0)

Stored(c) == pc[c] = "done" /\ state[c].pageable.type = "Pageable"

\* What the claim C1 asks of a stored number: the integer value of the text
\* when it is present, the default when the text is absent or empty.
AsQueried(raw, stored, dflt) ==
    IF Present(raw)
    THEN IsIntegerText(raw.chars) => stored = IntegerValue(raw.chars)
    ELSE stored = dflt

\* C1: when paginate completes without error, the stored Pageable has page
\* equal to the integer value of query.page if that text is present and
\* non-empty and 0 otherwise, and size equal to the integer value of
\* query.size if present and non-empty and 10 otherwise.
C1_PageAndSizeFromQuery ==
    \A c \in DOMAIN pc :
        Stored(c) =>
            /\ AsQueried(query[c].page, state[c].pageable.page, 0)
            /\ AsQueried(query[c].size, state[c].pageable.size, 10)

NotAnInteger(raw) == Present(raw) /\ ~IsIntegerText(raw.chars)

\* C2: paginate raises NumberFormatError whenever query.page or query.size is
\* present, non-empty and not the text of an integer, and in no other case.
C2_NumberFormatErrorIff ==
    \A c \in DOMAIN pc :
        pc[c] = "done" =>
            ((result[c].kind = "rejected" /\ result[c].error.type = "NumberFormatError")
                <=> (NotAnInteger(query[c].page) \/ NotAnInteger(query[c].size)))

OwnError(c) ==
    /\ pc[c] = "done"
    /\ result[c].kind = "rejected"
    /\ result[c].error.type \in {"NumberFormatError", "InvalidSortError"}

\* C6: when paginate fails with NumberFormatError or InvalidSortError the
\* error thrown is the one the caller gets, next is never invoked and
\* ctx.state is as it was before the call, with no pageable entry.
C6_FailureLeavesNoTrace ==
    \A c \in DOMAIN pc :
        OwnError(c) =>
            /\ result[c].error \in {NumberFormatError(query[c].page),
                                    NumberFormatError(query[c].size),
                                    InvalidSortError}
            /\ result[c].error.base = "KoaPageableError"
            /\ log[c] = <<>>
            /\ state[c] = InitialState
            /\ state[c].pageable = Undefined

\* A request with an invalid sort direction was rejected.
C6_Witness ==
    \E c \in DOMAIN pc :
        /\ OwnError(c)
        /\ result[c].error.type = "InvalidSortError"
        /\ query[c].sort = Str(<<"a", ":", "b">>)

\* C7: in a successful run the Pageable is stored before next is invoked,
\* next is invoked exactly once, the result of paginate is the result of
\* next, and nothing but ctx.state.pageable changes.
C7_StoreThenNext ==
    [][\A c \in DOMAIN pc :
          (pc[c] = "received" /\ pc'[c] = "done"
              /\ state'[c].pageable.type = "Pageable") =>
              /\ Len(log'[c]) = 2
              /\ log'[c][1] = SetPageable
              /\ log'[c][2].op = "next"
              /\ result'[c] = Settle(log'[c][2].outcome)
              /\ query'[c] = query[c]
              /\ DOMAIN state'[c] = DOMAIN state[c]
              /\ \A k \in DOMAIN state[c] \ {"pageable"} : state'[c][k] = state[c][k]]_vars

\* A request went through: the Pageable is stored and next has returned.
C7_Witness ==
    \E c \in DOMAIN pc :
        /\ Stored(c)
        /\ result[c].kind = "resolved"
        /\ Len(log[c]) = 2

\* C8: every stored Pageable has page >= 0 and size >= 1, for every query
\* whose page and size texts are integers (zero and negative ones included)
\* or absent.
C8_PageAndSizeInRange ==
    \A c \in DOMAIN pc :
        (Stored(c) /\ ~NotAnInteger(query[c].page) /\ ~NotAnInteger(query[c].size)) =>
            /\ state[c].pageable.page >= 0
            /\ state[c].pageable.size >= 1

\* C9: the stored Pageable has indexed = true exactly when query.indexed is
\* the text "true"; absent, empty, "TRUE", "1" and a sequence give false.
C9_IndexedOnlyForTrue ==
    \A c \in DOMAIN pc :
        Stored(c) =>
            (state[c].pageable.indexed
                <=> (query[c].indexed.type = "string"
                     /\ query[c].indexed.chars = <<"t", "r", "u", "e">>))

\* A request with indexed=TRUE was stored as not indexed.
C9_Witness ==
    \E c \in DOMAIN pc :
        /\ Stored(c)
        /\ query[c].indexed = Str(<<"T", "R", "U", "E">>)
        /\ ~state[c].pageable.indexed

-----------------------------------------------------------------------------
(* The page envelope *)

Built == page # Undefined

\* The number of pages of size size that hold total elements: the least
\* k >= 1 with k * size >= total.
PagesNeeded(total, size) ==
    CHOOSE k \in 1..(total + 1) :
        /\ k * size >= total
        /\ \A j \in 1..(k - 1) : j * size < total

\* C10: a page of any variant built from totalElements >= 0 and a Pageable
\* with size >= 1 has number, size and sort of the Pageable, totalPages =
\* max(ceil(totalElements / size), 1) >= 1, first = (number = 0) and last =
\* (number >= totalPages - 1), also when number is beyond the last page.
C10_Envelope ==
    (Built /\ pageInput.pageable.size >= 1) =>
        LET pages == PagesNeeded(pageInput.totalElements, pageInput.pageable.size)
        IN  /\ page.type = pageInput.kind
            /\ page.number = pageInput.pageable.page
            /\ page.size = pageInput.pageable.size
            /\ page.sort = pageInput.pageable.sort
            /\ page.totalElements = pageInput.totalElements
            /\ page.totalPages = Num(pages)
            /\ pages >= 1
            /\ page.first <=> (page.number = 0)
            /\ page.last <=> (page.number >= pages - 1)

\* A page whose number is beyond the last page was built, and it is last.
C10_Witness ==
    /\ Built
    /\ pageInput.pageable.size >= 1
    /\ page.totalPages.type = "number"
    /\ page.number > page.totalPages.value - 1
    /\ page.last

\* C11 as stated: a page built with totalElements = 0, for any non-negative
\* page number and page size, has totalPages = 1, first = true and last = true.
C11_EmptySetAsStated ==
    (Built /\ pageInput.totalElements = 0
        /\ pageInput.pageable.page >= 0 /\ pageInput.pageable.size >= 0) =>
        /\ page.totalPages = Num(1)
        /\ page.first
        /\ page.last

\* C11 as amended: a page built with totalElements = 0, for a non-negative
\* page number and a page size of at least 1, has totalPages = 1 and last =
\* true, and first = true exactly when the page number is 0.
C11_EmptySet ==
    (Built /\ pageInput.totalElements = 0
        /\ pageInput.pageable.page >= 0 /\ pageInput.pageable.size >= 1) =>
        /\ page.totalPages = Num(1)
        /\ page.first <=> (pageInput.pageable.page = 0)
        /\ page.last

\* A page of an empty data set with a page number other than 0 was built.
C11_Witness ==
    /\ Built
    /\ pageInput.totalElements = 0
    /\ pageInput.pageable.size >= 1
    /\ pageInput.pageable.page >= 1
    /\ ~page.first
    /\ page.last

NonEmptySet ==
    Built /\ pageInput.totalElements >= 1 /\ pageInput.pageable.size >= 1

\* C12 as stated: for totalElements >= 1 and size >= 1, totalPages =
\* ceil(totalElements / size) and last = true for the page with number =
\* totalPages - 1 and for no other page number.
C12_LastAsStated ==
    NonEmptySet =>
        LET pages == PagesNeeded(pageInput.totalElements, pageInput.pageable.size)
        IN  /\ page.totalPages = Num(pages)
            /\ page.last <=> (page.number = pages - 1)

\* C12 as amended: for totalElements >= 1 and size >= 1, totalPages =
\* ceil(totalElements / size); last = false for every page number below
\* totalPages - 1 and last = true for totalPages - 1 and every number above.
C12_Last ==
    NonEmptySet =>
        LET pages == PagesNeeded(pageInput.totalElements, pageInput.pageable.size)
        IN  /\ page.totalPages = Num(pages)
            /\ pages * page.size >= page.totalElements
            /\ (pages - 1) * page.size < page.totalElements
            /\ page.number < pages - 1 => ~page.last
            /\ page.number = pages - 1 => page.last
            /\ page.number > pages - 1 => page.last

\* A page before the last one of a data set of several pages was built.
C12_Witness ==
    /\ NonEmptySet
    /\ page.totalPages.type = "number"
    /\ page.totalPages.value >= 2
    /\ page.number < page.totalPages.value - 1
    /\ ~page.last

-----------------------------------------------------------------------------
(* The shapes of a page *)

IdsOf(content) == [i \in 1..Len(content) |-> content[i].id]

\* The place of the last element of content that has the given id.
LastWith(content, id) ==
    CHOOSE i \in 1..Len(content) :
        content[i].id = id /\ \A j \in 1..Len(content) : content[j].id = id => j <= i

\* C13: toJSON of an IndexablePage with indexed = true gives ids, the id of
\* each content element in content order, and index, from each id to the
\* last content element with that id, and no content; with indexed = false
\* it gives the content, element for element, and no ids and no index.
C13_ToJSONShape ==
    derived.kind = "toJSON" =>
        IF page.indexed
        THEN /\ derived.value.type = "IndexedPage"
             /\ derived.value.ids = IdsOf(page.content)
             /\ DOMAIN derived.value.index = {page.content[i].id : i \in 1..Len(page.content)}
             /\ \A id \in DOMAIN derived.value.index :
                    /\ derived.value.index[id].id = id
                    /\ derived.value.index[id] = page.content[LastWith(page.content, id)]
             /\ "content" \notin DOMAIN derived.value
        ELSE /\ derived.value.type = "ArrayPage"
             /\ derived.value.content = page.content
             /\ "ids" \notin DOMAIN derived.value
             /\ "index" \notin DOMAIN derived.value

\* An indexed page whose two elements share an id was serialized.
C13_Witness ==
    /\ derived.kind = "toJSON"
    /\ page.indexed
    /\ Len(page.content) = 2
    /\ page.content[1].id = page.content[2].id
    /\ page.content[1] # page.content[2]
    /\ derived.value.index[page.content[1].id] = page.content[2]

Envelope == {"number", "size", "sort", "totalElements", "totalPages", "first", "last",
             "numberOfElements"}

\* The page as the constructor call of pageInput builds it.
Constructed ==
    CASE pageInput.kind = "ArrayPage" ->
             ArrayPage(pageInput.content, pageInput.totalElements, pageInput.pageable)
      [] pageInput.kind = "IndexedPage" ->
             IndexedPage(pageInput.ids, pageInput.index,
                         pageInput.totalElements, pageInput.pageable)
      [] pageInput.kind = "IndexablePage" ->
             IndexablePage(pageInput.content, pageInput.totalElements, pageInput.pageable)

\* What the callback makes of a value and the second argument it is given.
Transformed(fn, value, second) ==
    IF fn = "rename"
    THEN [id |-> value.id, name |-> "r"]
    ELSE [id |-> value.id, name |-> value.name, age |-> 5 * second]

\* C14: map(fn) of each page type gives a page of the same type with the
\* envelope of the source; the content of an ArrayPage or IndexablePage is
\* fn of each element and its index, in order (an IndexablePage keeps
\* indexed), an IndexedPage keeps ids and keys with fn of each value; the
\* source page is unchanged.
C14_MapKeepsEnvelope ==
    derived.kind = "map" =>
        LET new == derived.value
            fn == derived.iteratee
        IN  /\ new.type = page.type
            /\ \A f \in Envelope : new[f] = page[f]
            /\ page = Constructed
            /\ DOMAIN new = DOMAIN page
            /\ page.type \in {"ArrayPage", "IndexablePage"} =>
                   /\ Len(new.content) = Len(page.content)
                   /\ \A i \in 1..Len(page.content) :
                          new.content[i] = Transformed(fn, page.content[i], i - 1)
            /\ page.type = "IndexablePage" => new.indexed = page.indexed
            /\ page.type = "IndexedPage" =>
                   /\ new.ids = page.ids
                   /\ DOMAIN new.index = DOMAIN page.index
                   /\ \A k \in DOMAIN page.index :
                          new.index[k] = Transformed(fn, page.index[k], k)

\* An ArrayPage of two elements, with more elements in the data set than on
\* the page, was mapped with the callback that uses the index.
C14_Witness ==
    /\ derived.kind = "map"
    /\ derived.iteratee = "withAge"
    /\ page.type = "ArrayPage"
    /\ Len(page.content) = 2
    /\ page.totalElements = 3
    /\ derived.value.content[2].age = 5

-----------------------------------------------------------------------------
(* Traversals of a Sort *)

\* The for...of loops that have ended.
Ended == {r \in 1..Len(seen) : r < Len(seen) \/ iter = Undefined}

\* C15: a for...of loop over a Sort sees exactly its orders, first to last,
\* and ends after them; every further loop sees the same sequence.
C15_IterationYieldsOrders ==
    \A r \in Ended : seen[r] = iterated.orders

\* C16: forEach calls the callback once for each Order, in order, with the
\* property and the direction of the Order as its two arguments, and leaves
\* the Sort as it was.
C16_ForEachPairs ==
    [][calls' # calls =>
          /\ calls'.kind = "forEach"
          /\ Len(calls'.args) = Len(iterated.orders)
          /\ \A i \in 1..Len(iterated.orders) :
                 calls'.args[i] = <<iterated.orders[i].property, iterated.orders[i].direction>>
          /\ iterated' = iterated]_vars

\* forEach ran over a Sort of two orders with different directions.
C16_Witness ==
    /\ calls.kind = "forEach"
    /\ Len(iterated.orders) = 2
    /\ iterated.orders[1].direction # iterated.orders[2].direction
    /\ Len(calls.args) = 2

-----------------------------------------------------------------------------
(* Constructing an Order and a Pageable *)

\* The given direction, lowercased, spells desc.
SpellsDesc(direction) ==
    /\ direction.type = "string"
    /\ Len(direction.chars) = 4
    /\ LowerChar(direction.chars[1]) = "d"
    /\ LowerChar(direction.chars[2]) = "e"
    /\ LowerChar(direction.chars[3]) = "s"
    /\ LowerChar(direction.chars[4]) = "c"

\* C17: constructing an Order always succeeds; its direction is desc exactly
\* when the given value lowercased is 'desc', and asc for every other given
\* value, including an omitted one, a typo, the empty string and null.
C17_OrderAlwaysSucceeds ==
    (callInput.kind = "Order" /\ callResult # NotRun) =>
        /\ callResult.kind = "return"
        /\ callResult.value.property = callInput.property
        /\ callResult.value.direction =
               IF SpellsDesc(callInput.direction) THEN <<"d", "e", "s", "c">>
               ELSE <<"a", "s", "c">>

\* C20: a Pageable built with omitted arguments has page 0, size 20, indexed
\* false and no sort; a Sort given as sort is stored as it is; a non-empty
\* string or a sequence of strings is stored as what parseSort makes of it;
\* an absent, null or empty-string sort leaves sort absent.
C20_PageableConstruction ==
    (callInput.kind = "Pageable" /\ callResult # NotRun) =>
        LET given == callInput.sort
            absent == \/ given.type \in {"undefined", "null"}
                      \/ given.type = "string" /\ given.chars = <<>>
            parsed == parseSort(given)
        IN  IF given.type \notin {"Sort"} /\ ~absent /\ parsed.kind = "throw"
            THEN callResult = parsed
            ELSE /\ callResult.kind = "return"
                 /\ callResult.value.page =
                        IF callInput.pageNumber = Undefined THEN 0
                        ELSE callInput.pageNumber.value
                 /\ callResult.value.size =
                        IF callInput.pageSize = Undefined THEN 20
                        ELSE callInput.pageSize.value
                 /\ callResult.value.indexed =
                        IF callInput.indexed = Undefined THEN FALSE
                        ELSE callInput.indexed.value
                 /\ callResult.value.sort =
                        CASE given.type = "Sort" -> given
                          [] absent -> Undefined
                          [] OTHER -> parsed.value

\* A Pageable was built with every argument omitted but the sort, a sequence
\* of two strings that parseSort turns into two orders.
C20_Witness ==
    /\ callInput.kind = "Pageable"
    /\ callInput.pageNumber = Undefined
    /\ callInput.pageSize = Undefined
    /\ callInput.indexed = Undefined
    /\ callInput.sort.type = "array"
    /\ Len(callInput.sort.items) = 2
    /\ callResult.kind = "return"
    /\ callResult.value.size = 20
    /\ callResult.value.sort.type = "Sort"
    /\ Len(callResult.value.sort.orders) = 2

-----------------------------------------------------------------------------
(* The errors the host framework gets *)

\* C18: every NumberFormatError and InvalidSortError that paginate raises is
\* a KoaPageableError, and the error value raised has status 400.
C18_ErrorsCarryStatus ==
    \A c \in DOMAIN pc :
        OwnError(c) =>
            /\ result[c].error.base = "KoaPageableError"
            /\ status(result[c].error) = [type |-> "number", value |-> 400]

-----------------------------------------------------------------------------
(* Requests in any order *)

\* C19: whatever the order of the paginate calls of distinct contexts, a call
\* writes nothing of another context, the Pageable stored for a context is
\* determined by the query of that context (contexts with the same query
\* hold equal Pageables, whichever ran first), and the objects of two
\* contexts' Pageables are distinct objects.
C19_Isolation ==
    [][\A c \in DOMAIN pc :
           pc'[c] # pc[c] =>
               /\ \A d \in DOMAIN pc \ {c} :
                      /\ query'[d] = query[d]
                      /\ state'[d] = state[d]
                      /\ result'[d] = result[d]
                      /\ log'[d] = log[d]
                      /\ refs'[d] = refs[d]
                      /\ refs'[d] \cap refs'[c] = {}
                      /\ (pc'[d] = "done" /\ query'[d] = query'[c]) =>
                             state'[d].pageable = state'[c].pageable
               /\ query'[c] = query[c]
               /\ state'[c].user = state[c].user
               /\ (refs'[c] # {}) <=> (state'[c].pageable # Undefined)]_vars

\* Two contexts with the same query, a sort of two orders, have both been
\* handled: each holds a Pageable with a Sort, made of objects of its own.
C19_Witness ==
    /\ pc = [c \in DOMAIN pc |-> "done"]
    /\ Cardinality(DOMAIN pc) >= 2
    /\ query[1] = query[2]
    /\ state[1].pageable # Undefined
    /\ state[1].pageable.sort # Undefined
    /\ Len(state[2].pageable.sort.orders) = 2
    /\ Cardinality(refs[1]) = 5
    /\ Cardinality(refs[2]) = 5
    /\ refs[1] \cap refs[2] = {}

-----------------------------------------------------------------------------
(* What toJSON keeps of the page *)

\* C21: the page that toJSON of an IndexablePage returns, indexed or not, has
\* the number, size, sort, totalElements, totalPages, first, last and
\* numberOfElements of the source page; numberOfElements is the length of the
\* source content, also when elements share an id; the source page is left
\* as it was built, and a further call gives an equal result.
C21_ToJSONKeepsEnvelope ==
    derived.kind = "toJSON" =>
        /\ \A f \in Envelope : derived.value[f] = page[f]
        /\ derived.value.numberOfElements = Len(page.content)
        /\ page = Constructed
        /\ IndexablePage_toJSON(page) = derived.value

====
